---- MODULE Spec2Model ----
(***************************************************************************)
(* The three Lambda handlers of the repository (mqtt-lambda/app.py,        *)
(* webhook-lambda/app.py, websocket-lambda/app.py) as a state machine.     *)
(*                                                                         *)
(* A text (a Python str) is a sequence of one-character strings.  A Python *)
(* value is a record [k |-> type name, v |-> payload]:                     *)
(*   NoneType  v = <<>>            bool  v = TRUE / FALSE                  *)
(*   int       v = the integer     str   v = the text                      *)
(*   list      v = sequence of values                                      *)
(*   dict      v = sequence of <<key text, value>> in insertion order,     *)
(*                 keys unique                                             *)
(* The event envelope and the returned response are such dicts.            *)
(***************************************************************************)
EXTENDS Integers, Sequences, FiniteSets, TLC

VARIABLES
    pc,        \* per invocation slot: "idle", a source position "<handler>:<line>", "returned", "raised"
    handler,   \* per slot: which lambda_handler the gateway invoked
    event,     \* per slot: the `event` argument (a dict value)
    frame,     \* per slot: the local variables of the running lambda_handler call
    out,       \* per slot: the lines the call has printed
    resp,      \* per slot: the value returned to the caller
    exc        \* per slot: the exception propagated to the caller

vars == <<pc, handler, event, frame, out, resp, exc>>

(* ------------------------------ bounds --------------------------------- *)

\* Every text over Alphabet of at most this length is offered as a body.
MaxLen == 3

\* Number of invocations in flight at once in SpecConc.
MaxInFlight == 2

(* ------------------------------ texts ---------------------------------- *)

K_message == <<"m", "e", "s", "s", "a", "g", "e">>
K_body == <<"b", "o", "d", "y">>
K_requestContext == <<"r", "e", "q", "u", "e", "s", "t", "C", "o", "n", "t", "e", "x", "t">>
K_routeKey == <<"r", "o", "u", "t", "e", "K", "e", "y">>
K_statusCode == <<"s", "t", "a", "t", "u", "s", "C", "o", "d", "e">>
K_status == <<"s", "t", "a", "t", "u", "s">>
K_error == <<"e", "r", "r", "o", "r">>
K_data == <<"d", "a", "t", "a">>
S_processed == <<"p", "r", "o", "c", "e", "s", "s", "e", "d">>
S_success == <<"s", "u", "c", "c", "e", "s", "s">>
S_InvalidMessageFormat == <<"I", "n", "v", "a", "l", "i", "d", " ", "m", "e", "s", "s", "a", "g", "e", " ", "f", "o", "r", "m", "a", "t">>
S_InvalidPayload == <<"I", "n", "v", "a", "l", "i", "d", " ", "p", "a", "y", "l", "o", "a", "d">>
S_Echo == <<"E", "c", "h", "o", ":", " ">>
S_connect == <<"$", "c", "o", "n", "n", "e", "c", "t">>
S_disconnect == <<"$", "d", "i", "s", "c", "o", "n", "n", "e", "c", "t">>
S_default == <<"$", "d", "e", "f", "a", "u", "l", "t">>
S_other == <<"$", "o", "t", "h", "e", "r">>
S_hello == <<"h", "e", "l", "l", "o">>
S_EmptyObject == <<"{", "}">>
L_MqttReceived == <<"M", "Q", "T", "T", " ", "m", "e", "s", "s", "a", "g", "e", " ", "r", "e", "c", "e", "i", "v", "e", "d", ":", " ">>
L_MqttInvalid == <<"I", "n", "v", "a", "l", "i", "d", " ", "M", "Q", "T", "T", " ", "m", "e", "s", "s", "a", "g", "e", " ", "f", "o", "r", "m", "a", "t">>
L_WebhookReceived == <<"W", "e", "b", "h", "o", "o", "k", " ", "r", "e", "c", "e", "i", "v", "e", "d", ":", " ">>
L_WebhookError == <<"E", "r", "r", "o", "r", " ", "p", "r", "o", "c", "e", "s", "s", "i", "n", "g", " ", "w", "e", "b", "h", "o", "o", "k", ":", " ">>

(* --------------------------- Python values ----------------------------- *)

PyNone == [k |-> "NoneType", v |-> <<>>]
PyBool(b) == [k |-> "bool", v |-> b]
PyInt(n) == [k |-> "int", v |-> n]
PyText(s) == [k |-> "str", v |-> s]
PyList(items) == [k |-> "list", v |-> items]
PyDict(items) == [k |-> "dict", v |-> items]

\* Placeholder of a slot that holds no event / response / exception.
Unset == [k |-> "unset", v |-> <<>>]

\* key in d
HasKey(d, key) == \E i \in 1..Len(d.v) : d.v[i][1] = key

\* d[key], defined when HasKey(d, key)
GetItem(d, key) == d.v[CHOOSE i \in 1..Len(d.v) : d.v[i][1] = key][2]

\* d.get(key, dflt)
DictGet(d, key, dflt) == IF HasKey(d, key) THEN GetItem(d, key) ELSE dflt

\* d[key] = val on the item list of a dict: a known key keeps its place
DictSet(items, key, val) ==
    IF \E i \in 1..Len(items) : items[i][1] = key
    THEN [i \in 1..Len(items) |-> IF items[i][1] = key THEN <<key, val>> ELSE items[i]]
    ELSE Append(items, <<key, val>>)

RECURSIVE Concat(_)
\* the concatenation of a sequence of texts
Concat(parts) ==
    IF parts = <<>> THEN <<>> ELSE Head(parts) \o Concat(Tail(parts))

RECURSIVE Join(_, _)
\* sep.join(parts)
Join(sep, parts) ==
    IF parts = <<>> THEN <<>>
    ELSE IF Len(parts) = 1 THEN parts[1]
    ELSE parts[1] \o sep \o Join(sep, Tail(parts))

Digits == <<"0", "1", "2", "3", "4", "5", "6", "7", "8", "9">>
IsDigit(c) == \E d \in 1..10 : Digits[d] = c
DigitVal(c) == (CHOOSE d \in 1..10 : Digits[d] = c) - 1

RECURSIVE NatToText(_)
NatToText(n) ==
    IF n < 10 THEN <<Digits[n + 1]>>
    ELSE NatToText(n \div 10) \o <<Digits[(n % 10) + 1]>>

\* str(n) of an int
IntToText(n) == IF n < 0 THEN <<"-">> \o NatToText(0 - n) ELSE NatToText(n)

(* --------------------------- json.loads -------------------------------- *)
(* The scanner of Python's json module on a str: whitespace, objects,      *)
(* arrays, strings with their one-character escapes, integers and the      *)
(* three literals.  Texts with fractions, exponents, \u escapes or the     *)
(* NaN / Infinity literals are not among the bodies offered below.         *)

JsonFail == [ok |-> FALSE, val |-> Unset, end |-> 0]
JsonOk(val, end) == [ok |-> TRUE, val |-> val, end |-> end]

IsWs(c) == c \in {" ", "\t", "\n", "\r"}

RECURSIVE SkipWs(_, _)
\* the first index from i on that holds no whitespace
SkipWs(s, i) ==
    IF i <= Len(s) /\ IsWs(s[i]) THEN SkipWs(s, i + 1) ELSE i

\* s[i:i+1] == c
CharAt(s, i, c) == i <= Len(s) /\ s[i] = c

\* s[i:i+len(word)] == word
MatchAt(s, i, word) ==
    /\ i + Len(word) - 1 <= Len(s)
    /\ SubSeq(s, i, i + Len(word) - 1) = word

\* the character an escape \c stands for; "" when \c is no escape
Unescape(c) ==
    CASE c = "\"" -> "\""
      [] c = "\\" -> "\\"
      [] c = "/" -> "/"
      [] c = "n" -> "\n"
      [] c = "t" -> "\t"
      [] c = "r" -> "\r"
      [] c = "f" -> "\f"
      [] OTHER -> ""

RECURSIVE ScanString(_, _, _)
\* py_scanstring from index i, just after the opening quote
ScanString(s, i, acc) ==
    IF i > Len(s) THEN JsonFail
    ELSE IF s[i] = "\"" THEN JsonOk(acc, i + 1)
    ELSE IF s[i] = "\\" THEN
        IF i + 1 > Len(s) \/ Unescape(s[i + 1]) = "" THEN JsonFail
        ELSE ScanString(s, i + 2, Append(acc, Unescape(s[i + 1])))
    ELSE IF s[i] \in {"\t", "\n", "\r", "\f"} THEN JsonFail
    ELSE ScanString(s, i + 1, Append(acc, s[i]))

RECURSIVE ScanDigits(_, _, _)
\* the digits from index i on, as [val, end]
ScanDigits(s, i, acc) ==
    IF i <= Len(s) /\ IsDigit(s[i])
    THEN ScanDigits(s, i + 1, acc * 10 + DigitVal(s[i]))
    ELSE [val |-> acc, end |-> i]

\* NUMBER_RE, integer part: -?(0|[1-9][0-9]*)
ScanInt(s, i) ==
    LET j == IF CharAt(s, i, "-") THEN i + 1 ELSE i
        sign == IF CharAt(s, i, "-") THEN 0 - 1 ELSE 1
    IN  IF ~(j <= Len(s) /\ IsDigit(s[j])) THEN JsonFail
        ELSE IF s[j] = "0" THEN JsonOk(PyInt(0), j + 1)
        ELSE LET d == ScanDigits(s, j, 0) IN JsonOk(PyInt(sign * d.val), d.end)

RECURSIVE ScanOnce(_, _), ScanArray(_, _, _), ScanObject(_, _, _)

\* scan_once: one JSON value starting exactly at index i
ScanOnce(s, i) ==
    IF i > Len(s) THEN JsonFail
    ELSE IF s[i] = "\"" THEN
        LET r == ScanString(s, i + 1, <<>>)
        IN  IF r.ok THEN JsonOk(PyText(r.val), r.end) ELSE JsonFail
    ELSE IF s[i] = "{" THEN
        LET j == SkipWs(s, i + 1)
        IN  IF CharAt(s, j, "}") THEN JsonOk(PyDict(<<>>), j + 1)
            ELSE ScanObject(s, j, <<>>)
    ELSE IF s[i] = "[" THEN
        LET j == SkipWs(s, i + 1)
        IN  IF CharAt(s, j, "]") THEN JsonOk(PyList(<<>>), j + 1)
            ELSE ScanArray(s, j, <<>>)
    ELSE IF MatchAt(s, i, <<"n", "u", "l", "l">>) THEN JsonOk(PyNone, i + 4)
    ELSE IF MatchAt(s, i, <<"t", "r", "u", "e">>) THEN JsonOk(PyBool(TRUE), i + 4)
    ELSE IF MatchAt(s, i, <<"f", "a", "l", "s", "e">>) THEN JsonOk(PyBool(FALSE), i + 5)
    ELSE ScanInt(s, i)

\* JSONArray from the first element at index i, with the elements read so far
ScanArray(s, i, acc) ==
    LET r == ScanOnce(s, i)
    IN  IF ~r.ok THEN JsonFail
        ELSE LET j == SkipWs(s, r.end)
                 items == Append(acc, r.val)
             IN  IF CharAt(s, j, "]") THEN JsonOk(PyList(items), j + 1)
                 ELSE IF CharAt(s, j, ",") THEN ScanArray(s, SkipWs(s, j + 1), items)
                 ELSE JsonFail

\* JSONObject from the opening quote of a key at index i, with the pairs read so far
ScanObject(s, i, acc) ==
    IF ~CharAt(s, i, "\"") THEN JsonFail
    ELSE
    LET key == ScanString(s, i + 1, <<>>)
    IN  IF ~key.ok THEN JsonFail
        ELSE LET c == SkipWs(s, key.end)
             IN  IF ~CharAt(s, c, ":") THEN JsonFail
                 ELSE LET r == ScanOnce(s, SkipWs(s, c + 1))
                      IN  IF ~r.ok THEN JsonFail
                          ELSE LET j == SkipWs(s, r.end)
                                   items == DictSet(acc, key.val, r.val)
                               IN  IF CharAt(s, j, "}") THEN JsonOk(PyDict(items), j + 1)
                                   ELSE IF CharAt(s, j, ",")
                                        THEN ScanObject(s, SkipWs(s, j + 1), items)
                                   ELSE JsonFail

\* JSONDecoder.decode: one value, whitespace around it, nothing after it
JsonDecode(s) ==
    LET r == ScanOnce(s, SkipWs(s, 1))
    IN  IF r.ok /\ SkipWs(s, r.end) = Len(s) + 1 THEN r ELSE JsonFail

\* json.loads(x): [ok, val] on success, [ok = FALSE, exc] naming the exception raised
json_loads(x) ==
    IF x.k # "str" THEN [ok |-> FALSE, val |-> Unset, exc |-> "TypeError"]
    ELSE LET r == JsonDecode(x.v)
         IN  IF r.ok THEN [ok |-> TRUE, val |-> r.val, exc |-> ""]
             ELSE [ok |-> FALSE, val |-> Unset, exc |-> "JSONDecodeError"]

(* --------------------------- json.dumps -------------------------------- *)

\* the escape of one character inside a JSON string (ensure_ascii, ASCII text)
JsonEscape(c) ==
    CASE c = "\"" -> <<"\\", "\"">>
      [] c = "\\" -> <<"\\", "\\">>
      [] c = "\n" -> <<"\\", "n">>
      [] c = "\t" -> <<"\\", "t">>
      [] c = "\r" -> <<"\\", "r">>
      [] c = "\f" -> <<"\\", "f">>
      [] OTHER -> <<c>>

\* encode_basestring_ascii
JsonQuote(s) == <<"\"">> \o Concat([i \in 1..Len(s) |-> JsonEscape(s[i])]) \o <<"\"">>

RECURSIVE json_dumps(_)
\* json.dumps(val) with the default separators (", " and ": ")
json_dumps(val) ==
    CASE val.k = "NoneType" -> <<"n", "u", "l", "l">>
      [] val.k = "bool" -> IF val.v THEN <<"t", "r", "u", "e">> ELSE <<"f", "a", "l", "s", "e">>
      [] val.k = "int" -> IntToText(val.v)
      [] val.k = "str" -> JsonQuote(val.v)
      [] val.k = "list" ->
            <<"[">> \o Join(<<",", " ">>, [i \in 1..Len(val.v) |-> json_dumps(val.v[i])]) \o <<"]">>
      [] val.k = "dict" ->
            <<"{">> \o Join(<<",", " ">>,
                            [i \in 1..Len(val.v) |->
                                JsonQuote(val.v[i][1]) \o <<":", " ">> \o json_dumps(val.v[i][2])])
                    \o <<"}">>

(* ------------------------ str() and repr() ----------------------------- *)

\* the escape of one character inside repr of a str delimited by quote q
ReprEscape(c, q) ==
    CASE c = q -> <<"\\", q>>
      [] c = "\\" -> <<"\\", "\\">>
      [] c = "\n" -> <<"\\", "n">>
      [] c = "\t" -> <<"\\", "t">>
      [] c = "\r" -> <<"\\", "r">>
      [] c = "\f" -> <<"\\", "x", "0", "c">>
      [] OTHER -> <<c>>

\* repr of a str: single quotes, unless it holds a single and no double quote
ReprText(s) ==
    LET has(c) == \E i \in 1..Len(s) : s[i] = c
        q == IF has("'") /\ ~has("\"") THEN "\"" ELSE "'"
    IN  <<q>> \o Concat([i \in 1..Len(s) |-> ReprEscape(s[i], q)]) \o <<q>>

RECURSIVE PyRepr(_)
\* repr(val)
PyRepr(val) ==
    CASE val.k = "NoneType" -> <<"N", "o", "n", "e">>
      [] val.k = "bool" -> IF val.v THEN <<"T", "r", "u", "e">> ELSE <<"F", "a", "l", "s", "e">>
      [] val.k = "int" -> IntToText(val.v)
      [] val.k = "str" -> ReprText(val.v)
      [] val.k = "list" ->
            <<"[">> \o Join(<<",", " ">>, [i \in 1..Len(val.v) |-> PyRepr(val.v[i])]) \o <<"]">>
      [] val.k = "dict" ->
            <<"{">> \o Join(<<",", " ">>,
                            [i \in 1..Len(val.v) |->
                                ReprText(val.v[i][1]) \o <<":", " ">> \o PyRepr(val.v[i][2])])
                    \o <<"}">>

\* the rendering of val by an f-string field {val}: str(val)
PyStr(val) == IF val.k = "str" THEN val.v ELSE PyRepr(val)

(* --------------------------- the envelopes ----------------------------- *)

T_x1 == <<"{", "\"", "x", "\"", ":", " ", "1", "}">>
T_a1 == <<"{", "\"", "a", "\"", ":", " ", "1", "}">>
T_notjson == <<"n", "o", "t", "-", "j", "s", "o", "n">>
T_nested == <<"{", "\"", "a", "\"", ":", "[", "1", ",", "{", "\"", "b", "\"", ":", "n", "u", "l", "l", "}", "]", ",", " ", "\"", "c", "\"", ":", "\"", "d", "\"", "}">>
T_dup == <<"{", "\"", "a", "\"", ":", "1", ",", "\"", "a", "\"", ":", "2", "}">>
T_quote == <<"\"", "a", "\\", "\"", "b", "\"">>
T_list == <<"[", "t", "r", "u", "e", ",", " ", "f", "a", "l", "s", "e", ",", " ", "-", "1", "0", "]">>
T_trailing == <<"[", "1", ",", "]">>
T_unterminated == <<"{", "\"", "a", "\"", ":", " ", "1">>
T_string == <<"\"", "a", "\"">>

Alphabet == {"{", "}", "[", "]", "\"", "a", "1", "0", "-", " "}

\* every text over Alphabet of length at most n
Texts(n) == UNION {[1..len -> Alphabet] : len \in 0..n}

\* bodies longer than MaxLen: the ones of the documented scenarios and some more
ExampleBodies ==
    {T_x1, T_a1, T_notjson, T_nested, T_dup, T_quote, T_list, T_trailing,
     T_unterminated, T_string}

Bodies == Texts(MaxLen) \cup ExampleBodies

\* A field option is the list of the items the field adds to a dict: none when absent.
MessageOptions == {<<>>, <<<<K_message, PyText(S_hello)>>>>, <<<<K_message, PyNone>>>>}

BodyOptions(texts) ==
    {<<>>, <<<<K_body, PyNone>>>>} \cup {<<<<K_body, PyText(t)>>>> : t \in texts}

RouteKeyOptions ==
    {<<>>, <<<<K_routeKey, PyNone>>>>}
        \cup {<<<<K_routeKey, PyText(r)>>>> : r \in {S_connect, S_disconnect, S_default, S_other}}

ContextOptions ==
    {<<>>, <<<<K_requestContext, PyNone>>>>}
        \cup {<<<<K_requestContext, PyDict(rk)>>>> : rk \in RouteKeyOptions}

\* the events the gateways may deliver: every combination of the three fields
Envelopes ==
    {PyDict(m \o b \o c) : m \in MessageOptions, b \in BodyOptions(Bodies), c \in ContextOptions}

Route(r) == <<<<K_requestContext, PyDict(<<<<K_routeKey, PyText(r)>>>>)>>>>

\* the envelopes of the documented scenarios, and two more
SampleEnvelopes ==
    { PyDict(<<<<K_message, PyText(S_hello)>>>>),
      PyDict(<<>>),
      PyDict(<<<<K_body, PyText(T_x1)>>>>),
      PyDict(<<<<K_body, PyText(T_notjson)>>>>),
      PyDict(Route(S_default) \o <<<<K_body, PyText(T_a1)>>>>),
      PyDict(Route(S_other)),
      PyDict(Route(S_connect) \o <<<<K_body, PyText(T_notjson)>>>>),
      PyDict(Route(S_disconnect)) }

Handlers == {"mqtt", "webhook", "websocket"}

\* the first statement of each lambda_handler
Entry(h) ==
    CASE h = "mqtt" -> "mqtt:6"
      [] h = "webhook" -> "webhook:5"
      [] h = "websocket" -> "websocket:4"

Slots == DOMAIN pc

NoLocals == <<>>

\* the frame with local variable name bound to val
Bind(locals, name, val) == (name :> val) @@ locals

\* an exception object; its message text is represented by its class name
Exception(type) == [k |-> type, v |-> <<>>]

\* str(e) of an exception
ExcText(e) == [i \in 1..0 |-> ""] \o <<e.k>>

(* ------------------------------ responses ------------------------------ *)

StatusOnly(code) == PyDict(<<<<K_statusCode, PyInt(code)>>>>)

Response(code, payload) ==
    PyDict(<<<<K_statusCode, PyInt(code)>>, <<K_body, PyText(json_dumps(payload))>>>>)

(* ------------------------- control transfers --------------------------- *)

\* statement done, go on at position next with the frame and output given
Goto(p, next, locals, printed) ==
    /\ pc' = [pc EXCEPT ![p] = next]
    /\ frame' = [frame EXCEPT ![p] = locals]
    /\ out' = [out EXCEPT ![p] = printed]
    /\ UNCHANGED <<handler, event, resp, exc>>

\* return value: the call ends, its frame is gone
Return(p, value) ==
    /\ pc' = [pc EXCEPT ![p] = "returned"]
    /\ resp' = [resp EXCEPT ![p] = value]
    /\ frame' = [frame EXCEPT ![p] = NoLocals]
    /\ UNCHANGED <<handler, event, out, exc>>

\* an exception no except clause of the handler catches leaves the call
Propagate(p, e) ==
    /\ pc' = [pc EXCEPT ![p] = "raised"]
    /\ exc' = [exc EXCEPT ![p] = e]
    /\ frame' = [frame EXCEPT ![p] = NoLocals]
    /\ UNCHANGED <<handler, event, out, resp>>

(* ------------------------------ gateway -------------------------------- *)

\* the gateway builds an envelope and calls lambda_handler(event, context)
Invoke(p, envelopes) ==
    /\ pc[p] = "idle"
    /\ \E h \in Handlers, e \in envelopes :
        /\ handler' = [handler EXCEPT ![p] = h]
        /\ event' = [event EXCEPT ![p] = e]
        /\ pc' = [pc EXCEPT ![p] = Entry(h)]
    /\ UNCHANGED <<frame, out, resp, exc>>

\* the gateway takes the outcome of the call; the envelope is dropped
Collect(p) ==
    /\ pc[p] \in {"returned", "raised"}
    /\ pc' = [pc EXCEPT ![p] = "idle"]
    /\ handler' = [handler EXCEPT ![p] = "none"]
    /\ event' = [event EXCEPT ![p] = Unset]
    /\ out' = [out EXCEPT ![p] = <<>>]
    /\ resp' = [resp EXCEPT ![p] = Unset]
    /\ exc' = [exc EXCEPT ![p] = Unset]
    /\ UNCHANGED frame

(* ---------------------------- mqtt-lambda ------------------------------ *)

\* MqttLookup with the bug `message = event.get('message')` tested for truth:
\* a message of None counts as missing
MqttLookupTruthy(p) ==
    /\ pc[p] = "mqtt:6"
    /\ IF HasKey(event[p], K_message) /\ GetItem(event[p], K_message) # PyNone
       THEN Goto(p, "mqtt:7", Bind(frame[p], "message", GetItem(event[p], K_message)), out[p])
       ELSE Goto(p, "mqtt:15", frame[p], out[p])

\* message = event['message']; a KeyError goes to the except clause
MqttLookup(p) ==
    /\ pc[p] = "mqtt:6"
    /\ IF HasKey(event[p], K_message)
       THEN Goto(p, "mqtt:7", Bind(frame[p], "message", GetItem(event[p], K_message)), out[p])
       ELSE Goto(p, "mqtt:15", frame[p], out[p])

\* print(f"MQTT message received: {message}")
MqttPrint(p) ==
    /\ pc[p] = "mqtt:7"
    /\ Goto(p, "mqtt:10", frame[p], Append(out[p], L_MqttReceived \o PyStr(frame[p]["message"])))

\* return {"statusCode": 200, "body": json.dumps({"status": "processed"})}
MqttReturnProcessed(p) ==
    /\ pc[p] = "mqtt:10"
    /\ Return(p, Response(200, PyDict(<<<<K_status, PyText(S_processed)>>>>)))

\* except KeyError: print("Invalid MQTT message format")
MqttExcept(p) ==
    /\ pc[p] = "mqtt:15"
    /\ Goto(p, "mqtt:16", frame[p], Append(out[p], L_MqttInvalid))

\* MqttReturnInvalid with the bug of returning the status code alone
MqttReturnInvalidNoBody(p) ==
    /\ pc[p] = "mqtt:16"
    /\ Return(p, StatusOnly(400))

\* return {"statusCode": 400, "body": json.dumps({"error": "Invalid message format"})}
MqttReturnInvalid(p) ==
    /\ pc[p] = "mqtt:16"
    /\ Return(p, Response(400, PyDict(<<<<K_error, PyText(S_InvalidMessageFormat)>>>>)))

(* --------------------------- webhook-lambda ---------------------------- *)

\* WebhookLoads with the bug `except ValueError`: the KeyError of a missing body
\* and the TypeError of a body that is no str leave the call
WebhookLoadsValueErrorOnly(p) ==
    /\ pc[p] = "webhook:5"
    /\ IF ~HasKey(event[p], K_body)
       THEN Propagate(p, Exception("KeyError"))
       ELSE LET r == json_loads(GetItem(event[p], K_body))
            IN  IF r.ok
                THEN Goto(p, "webhook:6", Bind(frame[p], "payload", r.val), out[p])
                ELSE IF r.exc = "TypeError" THEN Propagate(p, Exception(r.exc))
                ELSE Goto(p, "webhook:16", Bind(frame[p], "e", Exception(r.exc)), out[p])

\* WebhookLoads with the bug of a module-level `payload`: the assignment is seen
\* by every webhook call that has its payload but has not returned yet
WebhookLoadsGlobal(p) ==
    /\ pc[p] = "webhook:5"
    /\ IF ~HasKey(event[p], K_body)
       THEN Goto(p, "webhook:16", Bind(frame[p], "e", Exception("KeyError")), out[p])
       ELSE LET r == json_loads(GetItem(event[p], K_body))
            IN  IF r.ok
                THEN /\ pc' = [pc EXCEPT ![p] = "webhook:6"]
                     /\ frame' = [q \in DOMAIN pc |->
                                    IF q = p \/ pc[q] \in {"webhook:6", "webhook:8"}
                                    THEN Bind(frame[q], "payload", r.val)
                                    ELSE frame[q]]
                     /\ UNCHANGED <<handler, event, out, resp, exc>>
                ELSE Goto(p, "webhook:16", Bind(frame[p], "e", Exception(r.exc)), out[p])

\* WebhookLoads with the bug `event.pop('body')`: the body is taken out of the envelope
WebhookLoadsPop(p) ==
    /\ pc[p] = "webhook:5"
    /\ IF ~HasKey(event[p], K_body)
       THEN Goto(p, "webhook:16", Bind(frame[p], "e", Exception("KeyError")), out[p])
       ELSE LET r == json_loads(GetItem(event[p], K_body))
                rest == SelectSeq(event[p].v, LAMBDA item : item[1] # K_body)
            IN  /\ event' = [event EXCEPT ![p] = PyDict(rest)]
                /\ pc' = [pc EXCEPT ![p] = IF r.ok THEN "webhook:6" ELSE "webhook:16"]
                /\ frame' = [frame EXCEPT ![p] =
                                IF r.ok THEN Bind(frame[p], "payload", r.val)
                                ELSE Bind(frame[p], "e", Exception(r.exc))]
                /\ UNCHANGED <<handler, out, resp, exc>>

\* payload = json.loads(event['body']); any Exception goes to the except clause as e
WebhookLoads(p) ==
    /\ pc[p] = "webhook:5"
    /\ IF ~HasKey(event[p], K_body)
       THEN Goto(p, "webhook:16", Bind(frame[p], "e", Exception("KeyError")), out[p])
       ELSE LET r == json_loads(GetItem(event[p], K_body))
            IN  IF r.ok
                THEN Goto(p, "webhook:6", Bind(frame[p], "payload", r.val), out[p])
                ELSE Goto(p, "webhook:16", Bind(frame[p], "e", Exception(r.exc)), out[p])

\* print(f"Webhook received: {payload}")
WebhookPrint(p) ==
    /\ pc[p] = "webhook:6"
    /\ Goto(p, "webhook:8", frame[p], Append(out[p], L_WebhookReceived \o PyStr(frame[p]["payload"])))

\* return {"statusCode": 200, "body": json.dumps({"status": "success", "data": payload})}
WebhookReturnSuccess(p) ==
    /\ pc[p] = "webhook:8"
    /\ Return(p, Response(200, PyDict(<<<<K_status, PyText(S_success)>>,
                                        <<K_data, frame[p]["payload"]>>>>)))

\* except Exception as e: print(f"Error processing webhook: {str(e)}")
WebhookExcept(p) ==
    /\ pc[p] = "webhook:16"
    /\ Goto(p, "webhook:17", frame[p], Append(out[p], L_WebhookError \o ExcText(frame[p]["e"])))

\* return {"statusCode": 400, "body": json.dumps({"error": "Invalid payload"})}
WebhookReturnInvalid(p) ==
    /\ pc[p] = "webhook:17"
    /\ Return(p, Response(400, PyDict(<<<<K_error, PyText(S_InvalidPayload)>>>>)))

(* -------------------------- websocket-lambda --------------------------- *)

\* WebsocketRouteKey with the bug of parsing the body before the route is known:
\* body = json.loads(event.get('body', '{}')) ahead of every branch
WebsocketRouteKeyEagerBody(p) ==
    /\ pc[p] = "websocket:4"
    /\ LET rc == DictGet(event[p], K_requestContext, PyDict(<<>>))
           r == json_loads(DictGet(event[p], K_body, PyText(S_EmptyObject)))
       IN  IF rc.k # "dict" THEN Propagate(p, Exception("AttributeError"))
           ELSE IF ~r.ok THEN Propagate(p, Exception(r.exc))
           ELSE Goto(p, "websocket:6", Bind(frame[p], "route_key", DictGet(rc, K_routeKey, PyNone)), out[p])

\* WebsocketRouteKey with the bug event['requestContext']['routeKey']:
\* a missing key is a KeyError
WebsocketRouteKeySubscript(p) ==
    /\ pc[p] = "websocket:4"
    /\ IF ~HasKey(event[p], K_requestContext)
       THEN Propagate(p, Exception("KeyError"))
       ELSE LET rc == GetItem(event[p], K_requestContext)
            IN  IF rc.k # "dict" THEN Propagate(p, Exception("TypeError"))
                ELSE IF ~HasKey(rc, K_routeKey) THEN Propagate(p, Exception("KeyError"))
                ELSE Goto(p, "websocket:6", Bind(frame[p], "route_key", GetItem(rc, K_routeKey)), out[p])

\* route_key = event.get('requestContext', {}).get('routeKey');
\* a requestContext that is no dict has no .get: AttributeError, caught nowhere
WebsocketRouteKey(p) ==
    /\ pc[p] = "websocket:4"
    /\ LET rc == DictGet(event[p], K_requestContext, PyDict(<<>>))
       IN  IF rc.k = "dict"
           THEN Goto(p, "websocket:6", Bind(frame[p], "route_key", DictGet(rc, K_routeKey, PyNone)), out[p])
           ELSE Propagate(p, Exception("AttributeError"))

\* if route_key == '$connect': return {'statusCode': 200}
WebsocketConnect(p) ==
    /\ pc[p] = "websocket:6"
    /\ frame[p]["route_key"] = PyText(S_connect)
    /\ Return(p, StatusOnly(200))

\* elif route_key == '$disconnect': return {'statusCode': 200}
WebsocketDisconnect(p) ==
    /\ pc[p] = "websocket:6"
    /\ frame[p]["route_key"] = PyText(S_disconnect)
    /\ Return(p, StatusOnly(200))

\* elif route_key == '$default': body = json.loads(event.get('body', '{}'));
\* what json.loads raises is caught nowhere
WebsocketLoads(p) ==
    /\ pc[p] = "websocket:6"
    /\ frame[p]["route_key"] = PyText(S_default)
    /\ LET r == json_loads(DictGet(event[p], K_body, PyText(S_EmptyObject)))
       IN  IF r.ok
           THEN Goto(p, "websocket:14", Bind(frame[p], "body", r.val), out[p])
           ELSE Propagate(p, Exception(r.exc))

\* WebsocketEcho with the bug of echoing json.dumps(body) in place of str(body)
WebsocketEchoDumps(p) ==
    /\ pc[p] = "websocket:14"
    /\ Return(p, Response(200, PyDict(<<<<K_message, PyText(S_Echo \o json_dumps(frame[p]["body"]))>>>>)))

\* return {'statusCode': 200, 'body': json.dumps({'message': f"Echo: {body}"})}
WebsocketEcho(p) ==
    /\ pc[p] = "websocket:14"
    /\ Return(p, Response(200, PyDict(<<<<K_message, PyText(S_Echo \o PyStr(frame[p]["body"]))>>>>)))

\* return {'statusCode': 400}
WebsocketReject(p) ==
    /\ pc[p] = "websocket:6"
    /\ frame[p]["route_key"] \notin {PyText(S_connect), PyText(S_disconnect), PyText(S_default)}
    /\ Return(p, StatusOnly(400))

(* --------------------------- specifications ---------------------------- *)

\* one statement of the lambda_handler call running in slot p
Step(p) ==
    \/ MqttLookup(p)
    \/ MqttPrint(p)
    \/ MqttReturnProcessed(p)
    \/ MqttExcept(p)
    \/ MqttReturnInvalid(p)
    \/ WebhookLoads(p)
    \/ WebhookPrint(p)
    \/ WebhookReturnSuccess(p)
    \/ WebhookExcept(p)
    \/ WebhookReturnInvalid(p)
    \/ WebsocketRouteKey(p)
    \/ WebsocketConnect(p)
    \/ WebsocketDisconnect(p)
    \/ WebsocketLoads(p)
    \/ WebsocketEcho(p)
    \/ WebsocketReject(p)

InitSlots(slots) ==
    /\ pc = [p \in slots |-> "idle"]
    /\ handler = [p \in slots |-> "none"]
    /\ event = [p \in slots |-> Unset]
    /\ frame = [p \in slots |-> NoLocals]
    /\ out = [p \in slots |-> <<>>]
    /\ resp = [p \in slots |-> Unset]
    /\ exc = [p \in slots |-> Unset]

\* one invocation at a time, over every envelope
OneSlot == {1}

Init == InitSlots(OneSlot)

Next == \E p \in OneSlot : Invoke(p, Envelopes) \/ Step(p) \/ Collect(p)

Spec == Init /\ [][Next]_vars

\* several invocations in flight, over the sample envelopes
ConcSlots == 1..MaxInFlight

InitConc == InitSlots(ConcSlots)

NextConc == \E p \in ConcSlots : Invoke(p, SampleEnvelopes) \/ Step(p) \/ Collect(p)

SpecConc == InitConc /\ [][NextConc]_vars

(* ------------------------------ properties ----------------------------- *)

R_processed == <<"{", "\"", "s", "t", "a", "t", "u", "s", "\"", ":", " ", "\"", "p", "r", "o", "c", "e", "s", "s", "e", "d", "\"", "}">>
R_invalidMessage == <<"{", "\"", "e", "r", "r", "o", "r", "\"", ":", " ", "\"", "I", "n", "v", "a", "l", "i", "d", " ", "m", "e", "s", "s", "a", "g", "e", " ", "f", "o", "r", "m", "a", "t", "\"", "}">>
R_invalidPayload == <<"{", "\"", "e", "r", "r", "o", "r", "\"", ":", " ", "\"", "I", "n", "v", "a", "l", "i", "d", " ", "p", "a", "y", "l", "o", "a", "d", "\"", "}">>
R_echoEmpty == <<"{", "\"", "m", "e", "s", "s", "a", "g", "e", "\"", ":", " ", "\"", "E", "c", "h", "o", ":", " ", "{", "}", "\"", "}">>
R_echoA1 == <<"{", "\"", "m", "e", "s", "s", "a", "g", "e", "\"", ":", " ", "\"", "E", "c", "h", "o", ":", " ", "{", "'", "a", "'", ":", " ", "1", "}", "\"", "}">>
R_successX1 == <<"{", "\"", "s", "t", "a", "t", "u", "s", "\"", ":", " ", "\"", "s", "u", "c", "c", "e", "s", "s", "\"", ",", " ", "\"", "d", "a", "t", "a", "\"", ":", " ", "{", "\"", "x", "\"", ":", " ", "1", "}", "}">>

\* the call in slot p is over: it returned or it raised
Finished(p) == pc[p] \in {"returned", "raised"}

\* the call of handler h in slot p is over
Ran(p, h) == handler[p] = h /\ Finished(p)

\* the statusCode of a response
StatusOf(r) == r.v[CHOOSE i \in 1..Len(r.v) : r.v[i][1] = K_statusCode][2].v

\* the body field of a dict
BodyOf(d) == d.v[CHOOSE i \in 1..Len(d.v) : d.v[i][1] = K_body][2]

\* the envelope has a body that is a str holding one well-formed JSON value
BodyParses(e) ==
    /\ HasKey(e, K_body)
    /\ BodyOf(e).k = "str"
    /\ JsonDecode(BodyOf(e).v).ok

ParsedBody(e) == JsonDecode(BodyOf(e).v).val

\* the envelope has a requestContext mapping
HasContext(e) ==
    \E i \in 1..Len(e.v) : e.v[i][1] = K_requestContext /\ e.v[i][2].k = "dict"

\* the envelope's requestContext mapping holds routeKey = r
RouteIs(e, r) ==
    \E i \in 1..Len(e.v) :
        /\ e.v[i][1] = K_requestContext
        /\ e.v[i][2].k = "dict"
        /\ \E j \in 1..Len(e.v[i][2].v) : e.v[i][2].v[j] = <<K_routeKey, PyText(r)>>

\* no requestContext at all, or a requestContext mapping whose routeKey is absent
\* or none of the three known routes
NoKnownRoute(e) ==
    /\ ~HasKey(e, K_requestContext) \/ HasContext(e)
    /\ ~RouteIs(e, S_connect)
    /\ ~RouteIs(e, S_disconnect)
    /\ ~RouteIs(e, S_default)

\* {"statusCode": code, "body": text}
FullResponse(code, text) ==
    [k |-> "dict", v |-> <<<<K_statusCode, [k |-> "int", v |-> code]>>,
                            <<K_body, [k |-> "str", v |-> text]>>>>]

\* {"statusCode": code}
BareResponse(code) ==
    [k |-> "dict", v |-> <<<<K_statusCode, [k |-> "int", v |-> code]>>>>]

\* C1: every finished invocation of any of the three handlers has returned a
\* response dict whose statusCode is 200 or 400; none ends in an exception that
\* leaves lambda_handler.
C1_EveryInvocationReturnsResponse ==
    \A p \in DOMAIN pc :
        Finished(p) =>
            /\ pc[p] = "returned"
            /\ resp[p].k = "dict"
            /\ HasKey(resp[p], K_statusCode)
            /\ StatusOf(resp[p]) \in {200, 400}

\* C2: a finished websocket invocation on the $default route whose body is absent,
\* or is a text that does not parse, has returned 200 with body
\* {"message": "Echo: {}"}.
C2_DefaultRouteToleratesBadBody ==
    \A p \in DOMAIN pc :
        (/\ Ran(p, "websocket")
         /\ RouteIs(event[p], S_default)
         /\ HasKey(event[p], K_body) => BodyOf(event[p]).k = "str"
         /\ ~BodyParses(event[p])) =>
            /\ pc[p] = "returned"
            /\ resp[p] = FullResponse(200, R_echoEmpty)

\* C3: a finished webhook invocation has returned; with a body that parses the
\* response is 200 and its body is the serialization of exactly
\* {"status": "success", "data": <the parsed body>}; with a body that is absent
\* or does not parse it is 400 with body {"error": "Invalid payload"}.
C3_WebhookContract ==
    \A p \in DOMAIN pc :
        Ran(p, "webhook") =>
            /\ pc[p] = "returned"
            /\ IF BodyParses(event[p])
               THEN /\ Len(resp[p].v) = 2
                    /\ HasKey(resp[p], K_statusCode) /\ StatusOf(resp[p]) = 200
                    /\ HasKey(resp[p], K_body)
                    /\ LET back == json_loads(BodyOf(resp[p]))
                       IN  /\ back.ok
                           /\ back.val = [k |-> "dict",
                                          v |-> <<<<K_status, [k |-> "str", v |-> S_success]>>,
                                                  <<K_data, ParsedBody(event[p])>>>>]
                    /\ BodyOf(event[p]).v = T_x1 => BodyOf(resp[p]).v = R_successX1
               ELSE resp[p] = FullResponse(400, R_invalidPayload)

\* a webhook call has answered 200 to a nested structured body
C3_Witness ==
    \E p \in DOMAIN pc :
        /\ Ran(p, "webhook") /\ pc[p] = "returned"
        /\ HasKey(event[p], K_body) /\ BodyOf(event[p]) = [k |-> "str", v |-> T_nested]
        /\ StatusOf(resp[p]) = 200

\* C4: a finished mqtt invocation has returned; without the message field the
\* response is 400 with body {"error": "Invalid message format"}, with it (any
\* value) the response is 200 with body {"status": "processed"}.
C4_MqttContract ==
    \A p \in DOMAIN pc :
        Ran(p, "mqtt") =>
            /\ pc[p] = "returned"
            /\ resp[p] = IF \E i \in 1..Len(event[p].v) : event[p].v[i][1] = K_message
                         THEN FullResponse(200, R_processed)
                         ELSE FullResponse(400, R_invalidMessage)

\* an mqtt call has answered 200 to a message that is None
C4_Witness ==
    \E p \in DOMAIN pc :
        /\ Ran(p, "mqtt") /\ pc[p] = "returned"
        /\ \E i \in 1..Len(event[p].v) : event[p].v[i] = <<K_message, PyNone>>
        /\ StatusOf(resp[p]) = 200

\* C5: a finished websocket invocation on the $connect or $disconnect route has
\* returned {"statusCode": 200} with no body field, whatever else the envelope holds.
C5_ConnectDisconnectBare200 ==
    \A p \in DOMAIN pc :
        (Ran(p, "websocket") /\ (RouteIs(event[p], S_connect) \/ RouteIs(event[p], S_disconnect))) =>
            /\ pc[p] = "returned"
            /\ resp[p] = BareResponse(200)
            /\ ~HasKey(resp[p], K_body)

\* a websocket call on $disconnect has returned although its body is no JSON
C5_Witness ==
    \E p \in DOMAIN pc :
        /\ Ran(p, "websocket") /\ pc[p] = "returned"
        /\ RouteIs(event[p], S_disconnect)
        /\ HasKey(event[p], K_body) /\ BodyOf(event[p]) = [k |-> "str", v |-> T_notjson]

C7_DefaultRouteEchoes ==
    \A p \in DOMAIN pc :
        (Ran(p, "websocket") /\ RouteIs(event[p], S_default) /\ BodyParses(event[p])) =>
            /\ pc[p] = "returned"
            /\ Len(resp[p].v) = 2
            /\ HasKey(resp[p], K_statusCode) /\ StatusOf(resp[p]) = 200
            /\ HasKey(resp[p], K_body)
            /\ LET back == json_loads(BodyOf(resp[p]))
               IN  /\ back.ok
                   /\ back.val = [k |-> "dict",
                                  v |-> <<<<K_message,
                                            [k |-> "str", v |-> S_Echo \o PyStr(ParsedBody(event[p]))]>>>>]
            /\ BodyOf(event[p]).v = T_a1 => BodyOf(resp[p]).v = R_echoA1

\* a websocket call on $default has echoed a list body
C7_Witness ==
    \E p \in DOMAIN pc :
        /\ Ran(p, "websocket") /\ pc[p] = "returned"
        /\ RouteIs(event[p], S_default)
        /\ HasKey(event[p], K_body) /\ BodyOf(event[p]) = [k |-> "str", v |-> T_list]
        /\ StatusOf(resp[p]) = 200

\* C8 as stated: every returned response has a body field.
C8_EveryResponseHasBody ==
    \A p \in DOMAIN pc : pc[p] = "returned" => HasKey(resp[p], K_body)

\* C8 amended: a returned response of the mqtt or the webhook handler has a body
\* field, on success and on error; a returned response of the websocket handler
\* has one exactly on the $default route.  A body that is there is a str holding
\* a serialized mapping.
C8_BodyExceptWebsocketBare ==
    \A p \in DOMAIN pc :
        pc[p] = "returned" =>
            /\ HasKey(resp[p], K_body) <=>
                   (handler[p] \in {"mqtt", "webhook"} \/ RouteIs(event[p], S_default))
            /\ HasKey(resp[p], K_body) =>
                   /\ BodyOf(resp[p]).k = "str"
                   /\ JsonDecode(BodyOf(resp[p]).v).ok
                   /\ JsonDecode(BodyOf(resp[p]).v).val.k = "dict"

\* an mqtt call has answered 400 with a body, and the same envelope makes the
\* websocket handler answer without one
C8_Witness ==
    \E p \in DOMAIN pc :
        /\ Ran(p, "mqtt") /\ pc[p] = "returned"
        /\ StatusOf(resp[p]) = 400
        /\ HasKey(resp[p], K_body)
        /\ RouteIs(event[p], S_other)

\* C9: two finished invocations of the same handler on equal envelopes have the
\* same outcome and the same response, whatever ran before, between or beside them.
C9_SameEnvelopeSameResponse ==
    \A p, q \in DOMAIN pc :
        (Finished(p) /\ Finished(q) /\ handler[p] = handler[q] /\ event[p] = event[q]) =>
            /\ pc[p] = pc[q]
            /\ resp[p] = resp[q]
            /\ exc[p] = exc[q]

\* two webhook calls on the same envelope have both answered 200
C9_Witness ==
    \E p, q \in DOMAIN pc :
        /\ p # q
        /\ Ran(p, "webhook") /\ Ran(q, "webhook")
        /\ event[p] = event[q]
        /\ pc[p] = "returned" /\ pc[q] = "returned"
        /\ StatusOf(resp[p]) = 200

\* C10: from its invocation to its collection by the gateway the envelope of a
\* call stays what it was, on every path, and once the call is over none of its
\* local variables (the parsed body among them) is left.
C10_EnvelopeUntouched ==
    [][\A p \in DOMAIN pc :
          (pc[p] # "idle" /\ pc'[p] # "idle") =>
              /\ event'[p] = event[p]
              /\ pc'[p] \in {"returned", "raised"} => DOMAIN frame'[p] = {}]_vars

\* a webhook call that parsed its body is over, the body is still in the envelope
C10_Witness ==
    \E p \in DOMAIN pc :
        /\ Ran(p, "webhook") /\ pc[p] = "returned"
        /\ HasKey(event[p], K_body) /\ BodyOf(event[p]) = [k |-> "str", v |-> T_x1]
        /\ DOMAIN frame[p] = {}

====
